---- MODULE Spec2Model ----
(***************************************************************************)
(* A model of skritch/dice (src/dice/dice.py): the Dice expression class,  *)
(* its parser, its operators, canonical rendering, rolling and the Roll    *)
(* outcome class.                                                          *)
(*                                                                         *)
(* Python values are modelled as follows.                                  *)
(*   str      a sequence of one-character strings                          *)
(*   Counter  a function from a finite set of integer keys to integers     *)
(*   object   Counter objects live in the heap `counters`, Dice objects in *)
(*            the heap `dices` and hold the index of their Counter, so     *)
(*            that two Dice objects sharing one Counter are visible        *)
(*   raise    the `err` field of a result names the exception class        *)
(***************************************************************************)
EXTENDS Integers, Sequences, FiniteSets

\* counters: the Counter objects held by Dice objects
\* dices:    the Dice objects made so far, each [dice |-> index in counters,
\*           constant |-> integer]
\* rollObj:  the Roll the most recent call returned or was made on, NoRoll
\*           if there is none
\* last:     the most recent call and its outcome
VARIABLES counters, dices, rollObj, last

vars == <<counters, dices, rollObj, last>>

(***************************************************************************)
(* Bounds of the model.                                                    *)
(***************************************************************************)
\* Dice objects alive at once under Spec.
MaxDice == 2
\* Largest absolute value of a count or a constant kept by an operator.
MaxCount == 1
\* Largest number of '+'-joined segments of an input text under SpecText.
MaxTerms == 3

(***************************************************************************)
(* Python str helpers.                                                     *)
(***************************************************************************)
Digits == <<"0", "1", "2", "3", "4", "5", "6", "7", "8", "9">>

IsDigit(c) == \E i \in 1..Len(Digits) : Digits[i] = c

DigitVal(c) == (CHOOSE i \in 1..Len(Digits) : Digits[i] = c) - 1

\* c in s
Contains(s, c) == \E i \in 1..Len(s) : s[i] = c

\* s.strip(): leading and trailing whitespace removed
RECURSIVE LStrip(_)
LStrip(s) == IF s # <<>> /\ Head(s) = " " THEN LStrip(Tail(s)) ELSE s

RECURSIVE RStrip(_)
RStrip(s) ==
    IF s # <<>> /\ s[Len(s)] = " " THEN RStrip(SubSeq(s, 1, Len(s) - 1)) ELSE s

Strip(s) == RStrip(LStrip(s))

\* s.split(c): the pieces of s between the occurrences of c, at least one
RECURSIVE Split(_, _)
Split(s, c) ==
    IF ~Contains(s, c) THEN <<s>>
    ELSE LET i == CHOOSE k \in 1..Len(s) :
                      s[k] = c /\ \A j \in 1..(k - 1) : s[j] # c
         IN  <<SubSeq(s, 1, i - 1)>> \o Split(SubSeq(s, i + 1, Len(s)), c)

\* the value of a sequence of decimal digits
RECURSIVE DigitsVal(_)
DigitsVal(s) ==
    IF s = <<>> THEN 0
    ELSE 10 * DigitsVal(SubSeq(s, 1, Len(s) - 1)) + DigitVal(s[Len(s)])

\* the integer a sign and a body of digits stand for; the flag tells whether
\* the body is a well-formed one
AllDigits(body) == body # <<>> /\ \A i \in 1..Len(body) : IsDigit(body[i])

SignedDigits(sign, body) ==
    [ok |-> AllDigits(body),
     val |-> IF ~AllDigits(body) THEN 0
             ELSE IF sign = "-" THEN 0 - DigitsVal(body) ELSE DigitsVal(body)]

\* a stripped literal read as an optional sign and a body
Literal(t) ==
    IF t # <<>> /\ Head(t) \in {"-", "+"} THEN SignedDigits(Head(t), Tail(t))
    ELSE SignedDigits("+", t)

IntOrRaise(lit) ==
    IF lit.ok THEN [err |-> "none", val |-> lit.val]
    ELSE [err |-> "ValueError", val |-> 0]

IntOrZero(lit) == [err |-> "none", val |-> IF lit.ok THEN lit.val ELSE 0]

\* int(s) with every failure silently read as 0
PyIntLenient(s) == IntOrZero(Literal(Strip(s)))

\* int(s): surrounding whitespace is ignored, one sign is allowed, at least
\* one digit must follow; anything else raises ValueError.
PyInt(s) == IntOrRaise(Literal(Strip(s)))

\* str(n) of an integer
RECURSIVE NatStr(_)
NatStr(n) ==
    IF n < 10 THEN <<Digits[n + 1]>>
    ELSE NatStr(n \div 10) \o <<Digits[(n % 10) + 1]>>

PyStr(n) == IF n < 0 THEN <<"-">> \o NatStr(0 - n) ELSE NatStr(n)

\* sep.join(parts)
RECURSIVE Join(_, _)
Join(parts, sep) ==
    IF parts = <<>> THEN <<>>
    ELSE IF Len(parts) = 1 THEN parts[1]
    ELSE parts[1] \o sep \o Join(Tail(parts), sep)

(***************************************************************************)
(* collections.Counter                                                     *)
(***************************************************************************)
EmptyCounter == [k \in {} |-> 0]

\* counter[k]: a missing key reads as 0 and is not inserted
Get(c, k) == IF k \in DOMAIN c THEN c[k] ELSE 0

\* counter[k] += n
CounterInc(c, k, n) ==
    [x \in (DOMAIN c) \cup {k} |-> IF x = k THEN Get(c, k) + n ELSE c[x]]

\* a + b of two Counters adds the counts key by key and keeps only the
\* keys whose sum is positive
CounterAdd(a, b) ==
    LET keys == {k \in (DOMAIN a) \cup (DOMAIN b) : Get(a, k) + Get(b, k) > 0}
    IN  [k \in keys |-> Get(a, k) + Get(b, k)]

(***************************************************************************)
(* Dice.parse_string                                                       *)
(***************************************************************************)
\* counter[int(r)] += int(l)
ParseDice(acc, l, r) ==
    IF r.err # "none" \/ l.err # "none" THEN [acc EXCEPT !.err = "ValueError"]
    ELSE [acc EXCEPT !.dice = CounterInc(acc.dice, r.val, l.val)]

\* l, r = part.split('d')
ParseSplit(acc, pieces) ==
    IF Len(pieces) # 2 THEN [acc EXCEPT !.err = "ValueError"]
    ELSE ParseDice(acc, PyInt(pieces[1]), PyInt(pieces[2]))

\* constant += int(part)
ParseConstant(acc, n) ==
    IF n.err # "none" THEN [acc EXCEPT !.err = "ValueError"]
    ELSE [acc EXCEPT !.constant = acc.constant + n.val]

\* one iteration of the loop over the parts; the first exception ends it
ParsePart(acc, part) ==
    IF acc.err # "none" THEN acc
    ELSE IF Contains(part, "d") THEN ParseSplit(acc, Split(part, "d"))
    ELSE ParseConstant(acc, PyInt(part))

RECURSIVE ParseParts(_, _)
ParseParts(acc, parts) ==
    IF parts = <<>> THEN acc
    ELSE ParseParts(ParsePart(acc, Strip(Head(parts))), Tail(parts))

parse_string(s) ==
    ParseParts([err |-> "none", dice |-> EmptyCounter, constant |-> 0],
               Split(s, "+"))

(***************************************************************************)
(* Object references.  An argument is None, a Counter that no object holds *)
(* yet (just built by the caller), or a reference to a Counter of the heap.*)
(***************************************************************************)
None == [kind |-> "None"]

Fresh(c) == [kind |-> "fresh", val |-> c]

Ref(r) == [kind |-> "ref", ref |-> r]

Deref(cs, h) == IF h.kind = "ref" THEN cs[h.ref] ELSE h.val

\* bool(x) of None or of a Counter: an empty Counter is false
Truthy(cs, h) == h.kind # "None" /\ Deref(cs, h) # EmptyCounter

\* the result of a call that raised
Raised(e, cs) == [err |-> e, cs |-> cs, obj |-> [dice |-> 0, constant |-> 0]]

(***************************************************************************)
(* Dice.__init__                                                           *)
(***************************************************************************)
\* all([k > 0 for k in dice.keys()]) weakened to k >= 0
SizesNonNegative(c) == \A k \in DOMAIN c : k >= 0

\* all([k > 0 for k in dice.keys()])
SizesPositive(c) == \A k \in DOMAIN c : k > 0

\* the assertion on the sizes and the two assignments of __init__
DiceInitStore(cs, d, k) ==
    IF d.kind = "None" THEN Raised("AttributeError", cs)
    ELSE IF ~SizesPositive(Deref(cs, d)) THEN Raised("AssertionError", cs)
    ELSE IF Truthy(cs, d) /\ d.kind = "ref"
    THEN [err |-> "none", cs |-> cs, obj |-> [dice |-> d.ref, constant |-> k]]
    ELSE [err |-> "none",
          cs |-> Append(cs, IF Truthy(cs, d) THEN d.val ELSE EmptyCounter),
          obj |-> [dice |-> Len(cs) + 1, constant |-> k]]

\* dice, constant = self.parse_string(s), then the rest of __init__
DiceInitParsed(cs, p) ==
    IF p.err # "none" THEN Raised(p.err, cs)
    ELSE DiceInitStore(cs, Fresh(p.dice), p.constant)

\* s is None or a str; dice is None, a fresh Counter or a reference
DiceInit(cs, s, dice, constant) ==
    IF s.kind # "None" /\ s.val # <<>> /\ (Truthy(cs, dice) \/ constant # 0)
    THEN Raised("AssertionError", cs)
    ELSE IF s.kind # "None" /\ s.val # <<>>
    THEN DiceInitParsed(cs, parse_string(s.val))
    ELSE DiceInitStore(cs, dice, constant)

Str(t) == [kind |-> "str", val |-> t]

\* Dice(dice=counter, constant=constant) of a parse result
FromParsed(cs, p) ==
    IF p.err # "none" THEN Raised(p.err, cs)
    ELSE DiceInit(cs, None, Fresh(p.dice), p.constant)

\* Dice.from_string(s)
from_string(cs, s) == FromParsed(cs, parse_string(s))

\* Dice.empty()
empty(cs) == DiceInit(cs, None, None, 0)

\* Dice.one(dice_size)
one(cs, dice_size) ==
    DiceInit(cs, None, Fresh([k \in {dice_size} |-> 1]), 0)


(***************************************************************************)
(* Dice.__str__                                                            *)
(***************************************************************************)
\* the keys of a Counter, smallest first
RECURSIVE SortedAsc(_)
SortedAsc(S) ==
    IF S = {} THEN <<>>
    ELSE LET m == CHOOSE x \in S : \A y \in S : x <= y
         IN  <<m>> \o SortedAsc(S \ {m})

\* sorted(items, reverse=True): the keys of a Counter, largest first
RECURSIVE SortedDesc(_)
SortedDesc(S) ==
    IF S = {} THEN <<>>
    ELSE LET m == CHOOSE x \in S : \A y \in S : x >= y
         IN  <<m>> \o SortedDesc(S \ {m})

DiceTerms(c, order) ==
    [i \in 1..Len(order) |-> PyStr(c[order[i]]) \o <<"d">> \o PyStr(order[i])]

\* __str__ with the dice terms in ascending order of size
RenderAscending(c, constant) ==
    LET dice_part == Join(DiceTerms(c, SortedAsc(DOMAIN c)), <<" ", "+", " ">>)
        const_part == IF dice_part # <<>>
                      THEN IF constant > 0
                           THEN <<" ", "+", " ">> \o PyStr(constant)
                           ELSE <<>>
                      ELSE PyStr(constant)
    IN  dice_part \o const_part

\* __str__ with the constant appended without its ' + '
RenderNoSeparator(c, constant) ==
    LET dice_part == Join(DiceTerms(c, SortedDesc(DOMAIN c)), <<" ", "+", " ">>)
        const_part == IF dice_part # <<>>
                      THEN IF constant > 0 THEN PyStr(constant) ELSE <<>>
                      ELSE PyStr(constant)
    IN  dice_part \o const_part

\* str(self) of a Dice with Counter c
Render(c, constant) ==
    LET dice_part == Join(DiceTerms(c, SortedDesc(DOMAIN c)), <<" ", "+", " ">>)
        const_part == IF dice_part # <<>>
                      THEN IF constant > 0
                           THEN <<" ", "+", " ">> \o PyStr(constant)
                           ELSE <<>>
                      ELSE PyStr(constant)
    IN  dice_part \o const_part

(***************************************************************************)
(* Dice.__rmul__, Dice.__add__, Dice.__radd__, Dice.add                    *)
(* An operand is tagged with its Python type: [t |-> "int", v |-> n],      *)
(* [t |-> "str", v |-> text], [t |-> "Dice", v |-> index in dices], or     *)
(* [t |-> "other", v |-> 0] for a value of any other type.                 *)
(***************************************************************************)
IntArg(n) == [t |-> "int", v |-> n]

StrArg(s) == [t |-> "str", v |-> s]

DiceArg(i) == [t |-> "Dice", v |-> i]

OtherArg == [t |-> "other", v |-> 0]

\* new_dice = self.dice: the same Counter object, not a copy
AliasCounter(cs, r) == [cs |-> cs, ref |-> r]

\* new_dice = self.dice.copy(): a new Counter object with the same items
CopyCounter(cs, r) == [cs |-> Append(cs, cs[r]), ref |-> Len(cs) + 1]

\* for dice_size in new_dice: new_dice[dice_size] = other * new_dice[dice_size]
ScaleInPlace(cs, r, n) ==
    [cs EXCEPT ![r] = [k \in DOMAIN cs[r] |-> n * cs[r][k]]]

\* an empty copy is not kept by the new object (dice or Counter()) and is
\* released
KeepOrRelease(cs, ref, made) ==
    IF made.obj.dice = ref THEN made
    ELSE [made EXCEPT !.cs = Append(cs, EmptyCounter),
                      !.obj.dice = Len(cs) + 1]

\* the loop over new_dice and the returned Dice
Scaled(cs, copied, n, constant) ==
    KeepOrRelease(cs, copied.ref,
                  DiceInit(ScaleInPlace(copied.cs, copied.ref, n), None,
                           Ref(copied.ref), n * constant))

\* other * self
rmul(cs, self, other) ==
    IF other.t = "int"
    THEN Scaled(cs, CopyCounter(cs, self.dice), other.v, self.constant)
    ELSE Raised("NotImplementedError", cs)

\* self.add(other), other given by its Counter and its constant
add(cs, self, otherDice, otherConstant) ==
    DiceInit(cs, None, Fresh(CounterAdd(cs[self.dice], otherDice)),
             self.constant + otherConstant)

\* self.add(made), made the Dice that Dice.from_string returned
AddMade(cs, self, made) ==
    IF made.err # "none" THEN Raised(made.err, cs)
    ELSE add(cs, self, made.cs[made.obj.dice], made.obj.constant)

\* self + other
dunder_add(cs, ds, self, other) ==
    IF other.t = "int"
    THEN DiceInit(cs, None, Ref(self.dice), self.constant + other.v)
    ELSE IF other.t = "str" THEN AddMade(cs, self, from_string(cs, other.v))
    ELSE IF other.t = "Dice"
    THEN add(cs, self, cs[ds[other.v].dice], ds[other.v].constant)
    ELSE Raised("NotImplementedError", cs)

\* other + self
dunder_radd(cs, self, other) ==
    IF other.t = "int"
    THEN DiceInit(cs, None, Ref(self.dice), self.constant + other.v)
    ELSE Raised("NotImplementedError", cs)

(***************************************************************************)
(* Dice.roll, Roll.__init__, Roll.dice                                     *)
(***************************************************************************)
NoRoll == [live |-> FALSE, rolls |-> EmptyCounter, constant |-> 0]

\* [random.randint(1, dice_size) for _ in range(n)]: every list of n results
\* in 1..dice_size; range(n) is empty for n <= 0
ResultLists(dice_size, n) == [1..n -> 1..dice_size]

\* the dicts the comprehension of roll can build for Counter c
RollChoices(c) ==
    {f \in [DOMAIN c -> UNION {ResultLists(k, c[k]) : k \in DOMAIN c}] :
        \A k \in DOMAIN c : f[k] \in ResultLists(k, c[k])}

\* Roll(rolls, constant)
RollInit(rolls, constant) ==
    IF ~(DOMAIN rolls # {} \/ constant # 0)
    THEN [err |-> "AssertionError", roll |-> NoRoll]
    ELSE IF ~(\A k \in DOMAIN rolls : Len(rolls[k]) > 0)
    THEN [err |-> "AssertionError", roll |-> NoRoll]
    ELSE [err |-> "none",
          roll |-> [live |-> TRUE, rolls |-> rolls, constant |-> constant]]

\* the property Roll.dice: the comprehension iterates over the dict itself,
\* which yields its keys, and unpacks each int key into two names
roll_dice(cs, r) ==
    IF DOMAIN r.rolls # {} THEN Raised("TypeError", cs)
    ELSE DiceInit(cs, None, Fresh(EmptyCounter), r.constant)

(***************************************************************************)
(* Inputs.                                                                 *)
(***************************************************************************)
\* die sizes handed to Dice.one
DieSizes == {2, 3}

BadSizes == {0, -1}

\* integers handed to the operators
Scalars == (0 - MaxCount)..MaxCount

\* texts handed to the parser under Spec
HeapTexts ==
    { <<"-", "1", "d", "2">>,
      <<"1", "d", "2", " ", "+", " ", "1", "d", "3">>,
      <<"0", "d", "3">>,
      <<"1">>,
      <<>>,
      <<"1", "d", "0">> }

\* the segments input texts are joined from under SpecText: dice terms,
\* constants, dice terms of a size <= 0, and malformed segments
DiceSegs ==
    { <<"3", "d", "6">>, <<" ", "1", "d", "4", " ">>, <<"0", "d", "4">>,
      <<"-", "1", "d", "6">>, <<"1", "0", "d", "1", "2">> }

ConstSegs == { <<"2">>, <<" ", "1", "2">>, <<"-", "2">> }

BadSizeSegs == { <<"1", "d", "0">>, <<"2", "d", "-", "4">> }

BadSegs == { <<>>, <<"3", "d">>, <<"3", "d", "d", "6">>, <<"x">> }

RECURSIVE TextsOf(_, _)
TextsOf(segs, n) ==
    IF n = 0 THEN {}
    ELSE segs \cup {s \o <<"+">> \o t : s \in segs, t \in TextsOf(segs, n - 1)}

AllTexts == TextsOf(DiceSegs \cup ConstSegs \cup BadSizeSegs \cup BadSegs, MaxTerms)

\* every count and the constant of a made object stay within the bound
Within(r) ==
    r.err = "none" =>
        /\ r.obj.constant \in Scalars
        /\ \A k \in DOMAIN r.cs[r.obj.dice] : r.cs[r.obj.dice][k] \in Scalars

(***************************************************************************)
(* The state machine.  `last` records the most recent call: its name, its  *)
(* receiver (an index in dices, 0 if none), its tagged argument, the       *)
(* exception it raised ("none" if it returned), the index of the Dice it   *)
(* returned (0 if none) and the text it returned.                          *)
(***************************************************************************)
Called(op, self, arg, err, res, text) ==
    [op |-> op, self |-> self, arg |-> arg, err |-> err, res |-> res,
     text |-> text]

\* The state after import, before any call.  The module-level d4 ... d100 are
\* Dice.one(size) results like those One makes; they are left out of the
\* initial heap to keep it within MaxDice.
Init ==
    /\ counters = <<>>
    /\ dices = <<>>
    /\ rollObj = NoRoll
    /\ last = Called("import", 0, OtherArg, "none", 0, <<>>)

\* a call that returns a new Dice or raises; capped tells whether the
\* result is kept within the bound
Returns(op, self, arg, r, room, capped) ==
    /\ r.err = "none" => Len(dices) < room
    /\ capped => Within(r)
    /\ counters' = r.cs
    /\ dices' = IF r.err = "none" THEN Append(dices, r.obj) ELSE dices
    /\ last' = Called(op, self, arg, r.err,
                      IF r.err = "none" THEN Len(dices) + 1 ELSE 0, <<>>)
    /\ rollObj' = IF op = "Roll.dice" THEN rollObj ELSE NoRoll

Empty(room) == Returns("empty", 0, OtherArg, empty(counters), room, FALSE)

One(room) ==
    \E size \in DieSizes \cup BadSizes :
        Returns("one", 0, IntArg(size), one(counters, size), room, FALSE)

FromString(texts, room) ==
    \E s \in texts :
        Returns("from_string", 0, StrArg(s), from_string(counters, s), room,
                FALSE)

\* Dice(s)
Construct(texts, room) ==
    \E s \in texts :
        Returns("Dice", 0, StrArg(s), DiceInit(counters, Str(s), None, 0),
                room, FALSE)

\* texts handed to the operators
OperandTexts == { <<"1", "d", "2">>, <<"d">>, <<"1", "d", "0">> }

Operands == {IntArg(n) : n \in Scalars} \cup {StrArg(s) : s \in OperandTexts}
                \cup {DiceArg(j) : j \in 1..Len(dices)} \cup {OtherArg}

RMul(room) ==
    \E i \in 1..Len(dices), other \in {IntArg(n) : n \in Scalars} \cup {OtherArg} :
        Returns("rmul", i, other, rmul(counters, dices[i], other), room, TRUE)

Add(room) ==
    \E i \in 1..Len(dices), other \in Operands :
        Returns("add", i, other,
                dunder_add(counters, dices, dices[i], other), room, TRUE)

RAdd(room) ==
    \E i \in 1..Len(dices),
       other \in {IntArg(n) : n \in Scalars} \cup {StrArg(s) : s \in OperandTexts} :
        Returns("radd", i, other, dunder_radd(counters, dices[i], other),
                room, TRUE)

\* str(dices[i])
ToStr ==
    \E i \in 1..Len(dices) :
        /\ last' = Called("str", i, OtherArg, "none", 0,
                          Render(counters[dices[i].dice], dices[i].constant))
        /\ rollObj' = NoRoll
        /\ UNCHANGED <<counters, dices>>

\* dices[i].roll()
DoRoll ==
    \E i \in 1..Len(dices) :
        \E rolls \in RollChoices(counters[dices[i].dice]) :
            LET r == RollInit(rolls, dices[i].constant)
            IN  /\ rollObj' = r.roll
                /\ last' = Called("roll", i, OtherArg, r.err, 0, <<>>)
                /\ UNCHANGED <<counters, dices>>

\* rollObj.dice
RollDice(room) ==
    /\ rollObj.live
    /\ Returns("Roll.dice", 0, OtherArg, roll_dice(counters, rollObj), room,
               FALSE)

Next ==
    \/ Empty(MaxDice)
    \/ One(MaxDice)
    \/ FromString(HeapTexts, MaxDice)
    \/ Construct(HeapTexts, MaxDice)
    \/ RMul(MaxDice)
    \/ Add(MaxDice)
    \/ RAdd(MaxDice)
    \/ ToStr
    \/ DoRoll
    \/ RollDice(MaxDice)

Spec == Init /\ [][Next]_vars

\* one text parsed as the first call after import, by Dice.from_string or
\* by Dice(s), and the result rendered
TextInit == Init

TextNext ==
    \/ last.op = "import" /\ FromString(AllTexts, MaxDice)
    \/ last.op = "import" /\ Construct(AllTexts, MaxDice)
    \/ ToStr

SpecText == TextInit /\ [][TextNext]_vars

(***************************************************************************)
(* Properties.                                                             *)
(***************************************************************************)
\* the (dice mapping, constant) pair of the Dice object at index i of ds
ValueIn(cs, ds, i) == [dice |-> cs[ds[i].dice], constant |-> ds[i].constant]

Value(i) == ValueIn(counters, dices, i)

\* the pair a call result r holds
Made(r) == [dice |-> r.cs[r.obj.dice], constant |-> r.obj.constant]

\* equal constants and equal counts for every size, a missing size counting
\* as 0
SameExpression(x, y) ==
    /\ x.constant = y.constant
    /\ \A k \in (DOMAIN x.dice) \cup (DOMAIN y.dice) :
           Get(x.dice, k) = Get(y.dice, k)

\* C1: adding two expressions returns an expression whose count for every
\* size is the sum of the operands' counts for that size (a missing size
\* counting as 0) and whose constant is the sum of their constants, also
\* for operands holding zero or negative counts.
C1_AddIsKeywiseSum ==
    (last.op = "add" /\ last.arg.t = "Dice") =>
        /\ last.err = "none"
        /\ LET a == Value(last.self)
               b == Value(last.arg.v)
               r == Value(last.res)
           IN  /\ r.constant = a.constant + b.constant
               /\ \A k \in (DOMAIN a.dice) \cup (DOMAIN b.dice)
                                \cup (DOMAIN r.dice) :
                      Get(r.dice, k) = Get(a.dice, k) + Get(b.dice, k)

\* x.add(y) of two expressions of the heap, as a call result
AddOf(cs, x, y) == add(cs, x, y.dice, y.constant)

\* C2: addition is commutative and associative over the (dice mapping,
\* constant) pair: for all expressions a, b, c made by parse, one, scalar
\* multiplication and addition, a.add(b) equals b.add(a) and
\* a.add(b).add(c) equals a.add(b.add(c)).
C2_AddCommutativeAssociative ==
    \A i, j, k \in 1..Len(dices) :
        LET a == dices[i]
            ab == AddOf(counters, a, Value(j))
            ba == AddOf(counters, dices[j], Value(i))
            bc == AddOf(counters, dices[j], Value(k))
            ab_c == AddOf(ab.cs, ab.obj, Value(k))
            a_bc == AddOf(bc.cs, a, Made(bc))
        IN  /\ SameExpression(Made(ab), Made(ba))
            /\ SameExpression(Made(ab_c), Made(a_bc))

\* C4: Dice.empty() always succeeds and returns an expression with no dice
\* terms and constant 0.
C4_EmptySucceeds ==
    last.op = "empty" =>
        /\ last.err = "none"
        /\ Value(last.res) = [dice |-> EmptyCounter, constant |-> 0]

\* some dice term of the text s has a size <= 0, the text being otherwise
\* parseable
HasBadSize(s) ==
    LET p == parse_string(s)
    IN  p.err = "none" /\ \E k \in DOMAIN p.dice : k <= 0

\* C7: no expression with a non-positive die size exists: Dice.one(size)
\* with size <= 0, and parsing a term whose size is <= 0, raise at
\* construction (AssertionError, the invalid-size error) and make no
\* object, and every key of every dice mapping is a positive integer.
C7_SizesPositive ==
    /\ \A r \in 1..Len(counters) : \A k \in DOMAIN counters[r] : k > 0
    /\ \A i \in 1..Len(dices) : dices[i].dice \in 1..Len(counters)
    /\ (last.op = "one" /\ last.arg.v <= 0) =>
           last.err = "AssertionError" /\ last.res = 0
    /\ (last.op \in {"from_string", "Dice"} /\ HasBadSize(last.arg.v)) =>
           last.err = "AssertionError" /\ last.res = 0

\* Dice.one was called with a size <= 0 and raised, with an object in the heap
C7_Witness ==
    /\ last.op = "one" /\ last.arg.v <= 0 /\ last.err = "AssertionError"
    /\ dices # <<>>

\* C9: expressions are immutable: no call changes the dice mapping or the
\* constant of an existing expression, even where a result shares its dice
\* mapping with an operand.
C9_Immutable ==
    [][/\ \A r \in 1..Len(counters) :
             r <= Len(counters') /\ counters'[r] = counters[r]
       /\ \A i \in 1..Len(dices) :
             i <= Len(dices') /\ dices'[i] = dices[i]]_vars

\* an integer addition returned an expression that shares its dice mapping
\* with its operand
C9_Witness ==
    /\ last.op \in {"add", "radd"} /\ last.arg.t = "int" /\ last.err = "none"
    /\ dices[last.res].dice = dices[last.self].dice
    /\ dices[last.res].constant # dices[last.self].constant

\* C5: rolling an expression returns an outcome that holds, for each size
\* with count > 0, exactly count results each in 1..size, that skips each
\* size with count <= 0 without an error, and whose constant is the
\* expression's constant.  Stated for the expressions that have a positive
\* count or a nonzero constant, whose outcome is not empty.
C5_RollSkipsNonPositive ==
    LET c == Value(last.self).dice
        k0 == Value(last.self).constant
    IN  (/\ last.op = "roll"
         /\ (k0 # 0 \/ \E k \in DOMAIN c : c[k] > 0)) =>
            /\ last.err = "none"
            /\ rollObj.live
            /\ rollObj.constant = k0
            /\ DOMAIN rollObj.rolls = {k \in DOMAIN c : c[k] > 0}
            /\ \A k \in DOMAIN rollObj.rolls :
                   /\ Len(rollObj.rolls[k]) = c[k]
                   /\ \A n \in 1..Len(rollObj.rolls[k]) :
                          rollObj.rolls[k][n] \in 1..k

\* C10: for every roll outcome the property Roll.dice succeeds and returns
\* the expression whose count for each size is the number of results the
\* outcome records for that size and whose constant is the outcome's.
C10_RollDice ==
    last.op = "Roll.dice" =>
        /\ last.err = "none"
        /\ LET d == Value(last.res)
           IN  /\ d.constant = rollObj.constant
               /\ DOMAIN d.dice = DOMAIN rollObj.rolls
               /\ \A k \in DOMAIN d.dice : d.dice[k] = Len(rollObj.rolls[k])

(***************************************************************************)
(* Properties of the parser and of the rendering, under SpecText.          *)
(***************************************************************************)
\* an integer literal: an optional '-' and one or more digits, whitespace
\* around it allowed
IsIntLiteral(s) ==
    LET t == Strip(s)
        body == IF t # <<>> /\ Head(t) = "-" THEN Tail(t) ELSE t
    IN  body # <<>> /\ \A i \in 1..Len(body) : IsDigit(body[i])

CountOf(s, c) == Cardinality({i \in 1..Len(s) : s[i] = c})

\* a segment that is empty, holds more than one 'd', or whose count, size
\* or constant is no integer literal
MalformedSegment(seg) ==
    \/ Strip(seg) = <<>>
    \/ CountOf(seg, "d") > 1
    \/ /\ CountOf(seg, "d") = 1
       /\ LET p == CHOOSE i \in 1..Len(seg) : seg[i] = "d"
          IN  \/ ~IsIntLiteral(SubSeq(seg, 1, p - 1))
              \/ ~IsIntLiteral(SubSeq(seg, p + 1, Len(seg)))
    \/ CountOf(seg, "d") = 0 /\ ~IsIntLiteral(seg)

Malformed(s) ==
    LET segs == Split(s, "+")
    IN  \E i \in 1..Len(segs) : MalformedSegment(segs[i])

WellFormedTexts == TextsOf(DiceSegs \cup ConstSegs, MaxTerms)

\* str() of the expression x parses again to an equal mapping and constant
RoundTrips(x) ==
    LET again == from_string(<<>>, Render(x.dice, x.constant))
    IN  /\ again.err = "none"
        /\ Made(again).dice = x.dice
        /\ Made(again).constant = x.constant

\* C3: for every text joined from well-formed terms with '+', rendering the
\* parsed expression to canonical text and parsing that text again yields a
\* dice mapping and a constant equal to those of the first parse.
C3_RoundTrip ==
    (last.op = "from_string" /\ last.arg.v \in WellFormedTexts) =>
        /\ last.err = "none"
        /\ RoundTrips(Value(last.res))

\* C3 as amended: the same, for the texts whose constants sum to zero or
\* more or that hold no dice term.
C3_RoundTripAmended ==
    (last.op = "from_string" /\ last.arg.v \in WellFormedTexts) =>
        /\ last.err = "none"
        /\ (Value(last.res).constant >= 0 \/ Value(last.res).dice = EmptyCounter)
               => RoundTrips(Value(last.res))

\* a text of two dice terms of different sizes and a positive constant was
\* parsed
C3_Witness ==
    /\ last.op = "from_string" /\ last.arg.v \in WellFormedTexts
    /\ last.err = "none"
    /\ Cardinality(DOMAIN Value(last.res).dice) = 2
    /\ Value(last.res).constant > 0

\* the key of c that has exactly n larger keys
NthLargest(c, n) ==
    CHOOSE k \in DOMAIN c : Cardinality({j \in DOMAIN c : j > k}) = n

\* C8: str() renders the dice terms as '<count>d<size>' joined with ' + '
\* in descending order of size; with dice terms, ' + <constant>' follows if
\* the constant is positive and nothing follows if it is zero or negative;
\* without dice terms the text is the constant alone.  3d6 with constant 2
\* renders '3d6 + 2'.
C8_CanonicalText ==
    last.op = "str" =>
        LET x == Value(last.self)
            n == Cardinality(DOMAIN x.dice)
            m == IF x.constant > 0 THEN n + 1 ELSE n
            toks == Split(last.text, " ")
        IN  /\ n = 0 => last.text = PyStr(x.constant)
            /\ n > 0 =>
                  /\ Len(toks) = 2 * m - 1
                  /\ \A i \in 1..(m - 1) : toks[2 * i] = <<"+">>
                  /\ \A i \in 1..n :
                         LET size == NthLargest(x.dice, i - 1)
                         IN  toks[2 * i - 1] =
                               PyStr(x.dice[size]) \o <<"d">> \o PyStr(size)
                  /\ x.constant > 0 => toks[2 * m - 1] = PyStr(x.constant)
            /\ (x.dice = [k \in {6} |-> 3] /\ x.constant = 2) =>
                  last.text = <<"3", "d", "6", " ", "+", " ", "2">>

\* an expression of two dice terms and a negative constant was rendered
C8_Witness ==
    /\ last.op = "str"
    /\ Cardinality(DOMAIN Value(last.self).dice) = 2
    /\ Value(last.self).constant < 0

====
